---- MODULE Spec2Model ----
(***************************************************************************)
(* calin: a calendar web application on top of Google OAuth and the Google *)
(* Calendar API v3.  The model covers the server: the library              *)
(* src/lib/google-calendar.ts with its module-level OAuth client, the      *)
(* route handlers that call it, the two-table store (User, Webhook) and    *)
(* the upstream services (token endpoint, userinfo, Calendar).             *)
(*                                                                         *)
(* Every request is served by an async handler.  A handler runs without    *)
(* interruption from one `await` to the next; at an `await` any other      *)
(* request may run.  One action of the model is one such stretch: the      *)
(* awaited database or upstream result arrives, the code runs to its next  *)
(* await (or to its response), and the next database or upstream call is   *)
(* issued.  An upstream Calendar call reads the credentials of the OAuth   *)
(* client it was given at the moment it is issued.                         *)
(*                                                                         *)
(* Time is counted in hours; strings that the code searches are sequences  *)
(* of characters.                                                          *)
(***************************************************************************)
EXTENDS Integers, Sequences, FiniteSets, TLC

\* ------------------------------------------------------------------ bounds
MaxTime == 1        \* the clock runs over 0..MaxTime
MaxTokens == 1      \* distinct access tokens the token endpoint issues per account
MaxPages == 2       \* pages of one events.list sync
MaxEvents == 1      \* events one user creates
MaxHooks == 2       \* setupWebhook calls
MaxTimers == 3      \* timers pending in the page at one time
MaxPolls == 2       \* invocations of the polling callback

\* ------------------------------------------------------- program constants
TokenLifetime == 1          \* Date.now() + 3600000: one hour
ForcedExpiryAge == 1        \* Date.now() - 60 * 60 * 1000: one hour
WatchLifetime == 168        \* 7 * 24 * 60 * 60 * 1000: seven days
FetchMaxResults == 100      \* fetchAllEvents: maxResults

\* ------------------------------------------------------------------ values
UserIds == {"u1", "u2"}
Emails == {"a@x", "b@x"}
Procs == {"r1", "r2"}
NoUser == "nobody"

NoTok == [owner |-> "nobody", n |-> 0]
Tok(e, k) == [owner |-> e, n |-> k]

\* syncToken / pageToken: 0 stands for null, undefined and ''
NoTimer == 0         \* intervalRef: null
NoCursor == 0
Cursors == {1, 2}

\* ----------------------------------------------------------------- strings
S_birthday == <<"b","i","r","t","h","d","a","y">>
S_Birthday == <<"B","i","r","t","h","d","a","y","s">>
S_deleted == <<"d","e","l","e","t","e","d">>
S_plus == <<"p","l","u","s",".","g","o","o","g","l","e",".","c","o","m">>
S_notvalid == <<"n","o","t"," ","v","a","l","i","d"," ","f","o","r"," ","t","h","i","s",
                " ","e","v","e","n","t"," ","t","y","p","e">>
S_empty == << >>
S_other == <<"e","r","r">>
S_url == <<"h","t","t","p","s",":","/","/">> \o S_plus \o <<"/","1">>
S_wasdeleted == <<"i","s"," ">> \o S_deleted
S_isbirthday == <<"a"," ">> \o S_birthday

\* String.prototype.includes
Includes(s, t) == \E i \in 0..(Len(s) - Len(t)) : SubSeq(s, i + 1, i + Len(t)) = t

LowerChar(c) == IF c = "B" THEN "b" ELSE c

\* String.prototype.toLowerCase
ToLowerCase(s) == [i \in 1..Len(s) |-> LowerChar(s[i])]

\* ------------------------------------------------------------------ errors
\* kind "api": an error object of the upstream client (code, message);
\* kind "app": an Error the application constructs (text names its message).
NoErr == [kind |-> "none", code |-> 0, msg |-> S_empty, text |-> ""]
ApiErr(c, m) == [kind |-> "api", code |-> c, msg |-> m, text |-> ""]
AppErr(t) == [kind |-> "app", code |-> 0, msg |-> S_empty, text |-> t]

ApiMessages == {S_other, S_isbirthday, S_notvalid, S_wasdeleted}
EventErrors == {ApiErr(c, m) : c \in {400, 403, 404, 500}, m \in {S_other}}
               \cup {ApiErr(400, m) : m \in ApiMessages}
ServerError == ApiErr(500, S_other)
Gone == ApiErr(410, S_other)

VARIABLES
  users,        \* table User: id -> row
  webhooks,     \* table Webhook: set of rows
  hookSeq,      \* setupWebhook calls so far (each may create one row)
  oauthCred,    \* credentials of the module-level oauth2Client of google-calendar.ts
  now,          \* the clock
  cal,          \* upstream: the events each user created, not deleted
  older,        \* upstream: upcoming events that exist already and start earlier
  nextEvent,    \* upstream: events inserted so far per account
  proc,         \* the requests being served
  tab           \* the browser tab: document.hidden and the useSmartPolling hook

vars == <<users, webhooks, hookSeq, oauthCred, now, cal, older, nextEvent, proc, tab>>

\* ---------------------------------------------------------------- requests
NoCall == [api |-> "none", tok |-> NoTok, syncToken |-> NoCursor, pageToken |-> NoCursor,
           timeMin |-> 0]
Call(a, t) == [NoCall EXCEPT !.api = a, !.tok = t]

NoRow == [email |-> "", accessToken |-> NoTok, refreshToken |-> NoTok,
          tokenExpiry |-> 0, syncToken |-> NoCursor]
NoEvent == [id |-> 0, summary |-> "", start |-> 0, end |-> 0, eventType |-> "",
            title |-> S_empty, url |-> S_empty, status |-> ""]
NoHook == [id |-> 0, userId |-> NoUser, channelId |-> <<NoUser, 0>>, resourceId |-> "",
           expiration |-> 0]
NoPage == [items |-> << >>, nextPageToken |-> NoCursor, nextSyncToken |-> NoCursor]
NoFail == [api |-> "none", err |-> NoErr]

NoResp == [status |-> 0, error |-> "", details |-> NoErr, success |-> FALSE,
           events |-> << >>, nOlder |-> 0, hasChanges |-> FALSE,
           redirect |-> "", cookie |-> NoUser]

Idle == [pc |-> "idle", op |-> "none", user |-> NoUser,
         eventId |-> 0, summary |-> "", start |-> 0, end |-> 0,
         row |-> NoRow, newTok |-> NoTok,
         syncToken |-> NoCursor, pageToken |-> NoCursor, allChanges |-> << >>,
         hasChanges |-> FALSE, page |-> NoPage, existing |-> NoEvent,
         hooks |-> << >>, hookNo |-> 0, channelId |-> <<NoUser, 0>>, expiration |-> 0,
         resourceId |-> "", resourceState |-> "", email |-> "",
         call |-> NoCall,
         \* history of the request, kept for the properties
         sent |-> << >>, served |-> << >>, startToken |-> NoCursor,
         lastFail |-> NoFail, ups |-> FALSE, dbs |-> FALSE, hookCalled |-> FALSE,
         notified |-> NoUser, cookie |-> "", code |-> "", timeMin |-> 0,
         seen |-> NoEvent, goog |-> [channelId |-> <<NoUser, 0>>, resourceState |-> ""],
         resp |-> NoResp]

\* The response that ends a request: the handler's locals are gone, the history stays.
Done(r, resp) ==
  [Idle EXCEPT !.pc = "done", !.op = r.op, !.user = r.user, !.resp = resp,
               !.sent = r.sent, !.served = r.served, !.startToken = r.startToken,
               !.lastFail = r.lastFail, !.ups = r.ups, !.dbs = r.dbs,
               !.hookCalled = r.hookCalled, !.notified = r.notified,
               !.cookie = r.cookie, !.code = r.code, !.timeMin = r.timeMin,
               !.seen = r.seen, !.goog = r.goog]

Json(status) == [NoResp EXCEPT !.status = status]

\* `if (!sessionToken) return NextResponse.json({ error: 'No session found' }, { status: 401 })`
NoSession == [Json(401) EXCEPT !.error = "No session found"]

ErrorLabel(op) ==
  CASE op = "events" -> "Failed to fetch calendar events"
    [] op = "sync" -> "error.message"
    [] op = "create" -> "Failed to create event"
    [] op = "update" -> "Failed to update event"
    [] op = "delete" -> "Failed to delete event"
    [] op = "watch" -> "error.message"
    [] op = "refresh" -> "Token refresh failed"
    [] op = "user" -> "Failed to fetch user info"
    [] op = "expire" -> "Force expiry failed"
    [] OTHER -> "error"

\* The catch block of a route handler: the error's message goes out as `details`
\* (`error` for sync and watch) with status 500 (401 for GET /api/auth/user).
HandlerCatch(op, e) ==
  [Json(IF op = "user" THEN 401 ELSE 500) EXCEPT !.error = ErrorLabel(op), !.details = e]

Put(p, r) == proc' = [proc EXCEPT ![p] = r]

\* the hours at which the events of the model start and end
Times == {0, 1, 2}
Min(a, b) == IF a < b THEN a ELSE b

\* ------------------------------------------------ OAuth callback: its exits
\* callback/route.ts 56-72: jwt.sign, redirect to /calendar, session cookie.
CallbackSession(r) ==
  Done(r, [Json(307) EXCEPT !.redirect = "/calendar", !.cookie = r.user])

\* An outer catch that sends the browser on to the calendar.
CallbackFailedToCalendar(r) ==
  Done(r, [Json(307) EXCEPT !.redirect = "/calendar"])

\* callback/route.ts 73-82: the outer catch.
CallbackFailed(r) ==
  Done(r, [Json(307) EXCEPT !.redirect = "/login?error=auth_failed"])

\* A callback without the catch around setupWebhook: every error reaches the outer one.
ThrowToOuterCatch(r, e) ==
  IF r.op = "callback"
    THEN Done(r, [Json(307) EXCEPT !.redirect = "/login?error=auth_failed"])
    ELSE Done(r, HandlerCatch(r.op, e))

\* An error leaves a library function (or the handler's own code) and is caught:
\* by the route handler's catch block, or, in the OAuth callback, by the catch
\* around setupWebhook (47-54) or the outer catch.
Throw(r, e) ==
  IF r.op = "callback"
    THEN (IF r.hookCalled THEN CallbackSession(r) ELSE CallbackFailed(r))
    ELSE Done(r, HandlerCatch(r.op, e))

\* An upstream call of request r failed with e.
Failed(r, e) == [r EXCEPT !.lastFail = [api |-> r.call.api, err |-> e], !.call = NoCall]

\* ------------------------------------------------------- setupOAuthClient
\* google-calendar.ts 16-19: `await prisma.user.findUnique(...)` is issued.
EnterOAuth(r) == [r EXCEPT !.pc = "oa_find", !.dbs = TRUE, !.call = NoCall]

\* setupOAuthClient has returned the shared client, carrying `cred`; the caller runs
\* to its next await.  t is the clock.
Resume(r0, cred, t) ==
  LET r == [r0 EXCEPT !.row = NoRow, !.newTok = NoTok, !.expiration = 0] IN
  CASE r.op = "events" ->
         [r EXCEPT !.pc = "fetch_list", !.ups = TRUE, !.timeMin = t,
                   !.call = [Call("events.list", cred) EXCEPT !.timeMin = t]]
    [] r.op = "sync" ->
         [r EXCEPT !.pc = "sync_find", !.dbs = TRUE]
    [] r.op = "create" ->
         [r EXCEPT !.pc = "insert", !.ups = TRUE, !.call = Call("events.insert", cred)]
    [] r.op \in {"update", "delete"} ->
         [r EXCEPT !.pc = "get", !.ups = TRUE, !.call = Call("events.get", cred)]
    [] OTHER ->  \* setupWebhook, 215-229
         [r EXCEPT !.pc = "watch", !.ups = TRUE,
                   !.channelId = <<r.user, t>>, !.expiration = t + WatchLifetime,
                   !.call = Call("events.watch", cred)]

\* A setupOAuthClient that takes a token that expires just now as still valid.
OAuthFindLate(p) ==
  LET r == proc[p] IN
  /\ r.pc = "oa_find"
  /\ IF r.user \notin DOMAIN users
       THEN /\ Put(p, Throw(r, AppErr("User not found")))
            /\ UNCHANGED oauthCred
       ELSE LET user == users[r.user] IN
            IF user.tokenExpiry < now
              THEN /\ Put(p, [r EXCEPT !.pc = "oa_refresh", !.row = user, !.ups = TRUE,
                                        !.call = Call("oauth2.token", user.refreshToken)])
                   /\ UNCHANGED oauthCred
              ELSE /\ oauthCred' = user.accessToken
                   /\ Put(p, Resume([r EXCEPT !.row = user], user.accessToken, now))
  /\ UNCHANGED <<users, webhooks, hookSeq, now, cal, older, nextEvent, tab>>

\* 17-29 and 44-51: the row arrives; a token that is not expired is installed on the
\* shared client, an expired one is refreshed first.
OAuthFind(p) ==
  LET r == proc[p] IN
  /\ r.pc = "oa_find"
  /\ IF r.user \notin DOMAIN users
       THEN /\ Put(p, Throw(r, AppErr("User not found")))
            /\ UNCHANGED oauthCred
       ELSE LET user == users[r.user] IN
            IF user.tokenExpiry <= now
              THEN /\ Put(p, [r EXCEPT !.pc = "oa_refresh", !.row = user, !.ups = TRUE,
                                        !.call = Call("oauth2.token", user.refreshToken)])
                   /\ UNCHANGED oauthCred
              ELSE /\ oauthCred' = user.accessToken
                   /\ Put(p, Resume([r EXCEPT !.row = user], user.accessToken, now))
  /\ UNCHANGED <<users, webhooks, hookSeq, now, cal, older, nextEvent, tab>>

\* 29-38 and 55-68: the token endpoint answers refreshAccessToken; the update is
\* issued with `new Date(Date.now() + 3600000)`.
OAuthRefresh(p) ==
  LET r == proc[p] IN
  /\ r.pc = "oa_refresh"
  /\ \/ Put(p, Throw(Failed(r, ApiErr(400, S_other)), ApiErr(400, S_other)))
     \/ \E k \in 1..MaxTokens :
          Put(p, [r EXCEPT !.pc = "oa_update", !.dbs = TRUE, !.call = NoCall,
                           !.newTok = Tok(r.row.refreshToken.owner, k),
                           !.expiration = now + TokenLifetime])
  /\ UNCHANGED <<users, webhooks, hookSeq, oauthCred, now, cal, older, nextEvent, tab>>

\* 32-43: the row is updated, the new token installed on the shared client.
OAuthUpdate(p) ==
  LET r == proc[p] IN
  /\ r.pc = "oa_update"
  /\ users' = [users EXCEPT ![r.user].accessToken = r.newTok,
                            ![r.user].tokenExpiry = r.expiration]
  /\ oauthCred' = r.newTok
  /\ Put(p, Resume(r, r.newTok, now))
  /\ UNCHANGED <<webhooks, hookSeq, now, cal, older, nextEvent, tab>>

\* ------------------------------------------------------ upstream: Calendar
Ev(i, s, a, b) == [NoEvent EXCEPT !.id = i, !.summary = s, !.start = a, !.end = b]

\* The mapping every library function applies to an upstream event
\* (`summary: event.summary || 'Untitled Event'`, ...).
CalendarEvent(e) ==
  [id |-> e.id, summary |-> IF e.summary = "" THEN "Untitled Event" ELSE e.summary,
   start |-> e.start, end |-> e.end]

MapEvents(items) == [i \in 1..Len(items) |-> CalendarEvent(items[i])]

Before(e, f) == e.start < f.start \/ (e.start = f.start /\ e.id <= f.id)

RECURSIVE SortByStart(_)
SortByStart(S) ==
  IF S = {} THEN << >>
  ELSE LET m == CHOOSE e \in S : \A f \in S : Before(e, f)
       IN <<m>> \o SortByStart(S \ {m})

\* A listing that takes timeMin as a lower bound of the start time.
ListNotStarted(account, timeMin, maxResults) ==
  LET sorted == SortByStart({e \in cal[account] : e.start > timeMin})
      n == Min(older, maxResults)
  IN [nOlder |-> n, items |-> SubSeq(sorted, 1, Min(Len(sorted), maxResults - n))]

\* events.list with timeMin, maxResults, singleEvents, orderBy: 'startTime': the
\* events that end after timeMin, by start time, cut after maxResults.  The events
\* counted by `older` are upcoming and start before every event of `cal`.
ListUpcoming(account, timeMin, maxResults) ==
  LET sorted == SortByStart({e \in cal[account] : e.end > timeMin})
      n == Min(older, maxResults)
  IN [nOlder |-> n, items |-> SubSeq(sorted, 1, Min(Len(sorted), maxResults - n))]

\* ---------------------------------------------------------- fetchAllEvents
\* 77-106: the answer to events.list.
FetchList(p) ==
  LET r == proc[p] IN
  /\ r.pc = "fetch_list"
  /\ \/ Put(p, Throw(Failed(r, ServerError), ServerError))
     \/ LET got == ListUpcoming(r.call.tok.owner, r.call.timeMin, FetchMaxResults)
        IN Put(p, Done(r, [Json(200) EXCEPT !.success = TRUE, !.nOlder = got.nOlder,
                                            !.events = MapEvents(got.items)]))
  /\ UNCHANGED <<users, webhooks, hookSeq, oauthCred, now, cal, older, nextEvent, tab>>

\* ------------------------------------------------------ syncCalendarEvents
\* What page k of a listing may hold: nothing, or the change numbered k (every
\* other one without a summary).
PageItems(k) == {<< >>, <<Ev(k, IF k % 2 = 1 THEN "" ELSE "S", 0, 1)>>}

\* 128-135: the events.list request of the sync loop.
SyncRequest(r, cred) ==
  [Call("events.list", cred) EXCEPT !.syncToken = r.syncToken, !.pageToken = r.pageToken]

IssueSyncList(r, cred) ==
  LET c == SyncRequest(r, cred)
  IN [r EXCEPT !.pc = "sync_list", !.ups = TRUE, !.call = c,
               !.sent = Append(@, [syncToken |-> c.syncToken, pageToken |-> c.pageToken])]

\* 113-135: the row arrives, the first page is requested.
SyncFind(p) ==
  LET r == proc[p]
      user == users[r.user]
  IN
  /\ r.pc = "sync_find"
  /\ Put(p, IssueSyncList([r EXCEPT !.syncToken = user.syncToken, !.pageToken = NoCursor,
                                    !.startToken = user.syncToken], oauthCred))
  /\ UNCHANGED <<users, webhooks, hookSeq, oauthCred, now, cal, older, nextEvent, tab>>

\* A sync that keeps the nextSyncToken of its first page.
TokenOfFirstPage(r) == r.served[1].nextSyncToken

\* The value syncCalendarEvents stores as the user's syncToken (160-165).
TokenToStore(r) == r.page.nextSyncToken

\* 137-167 for a page, 172-186 for an error.  The upstream answers 410 only to a
\* request that carried a syncToken; the last page of a listing carries nextSyncToken
\* and no nextPageToken (Events: list, response fields).
SyncList(p) ==
  LET r == proc[p] IN
  /\ r.pc = "sync_list"
  /\ \/ Put(p, Throw(Failed(r, ServerError), ServerError))
     \/ /\ r.call.syncToken # NoCursor
        /\ Put(p, [Failed(r, Gone) EXCEPT !.pc = "sync_reset", !.dbs = TRUE])
     \/ \E items \in PageItems(Len(r.served) + 1), more \in BOOLEAN :
        \E nst \in IF more THEN {NoCursor} ELSE Cursors :
          /\ more => Len(r.served) + 1 < MaxPages
          /\ LET page == [items |-> items,
                          nextPageToken |-> IF more THEN Len(r.served) + 2 ELSE NoCursor,
                          nextSyncToken |-> nst]
                 q == [r EXCEPT !.served = Append(@, page), !.page = page,
                                !.hasChanges = @ \/ Len(items) > 0,
                                !.allChanges = @ \o MapEvents(items),
                                !.pageToken = page.nextPageToken, !.call = NoCall]
             IN IF q.pageToken = NoCursor /\ page.nextSyncToken # NoCursor
                  THEN Put(p, [q EXCEPT !.pc = "sync_store", !.dbs = TRUE])
                  ELSE IF q.pageToken # NoCursor
                    THEN Put(p, IssueSyncList(q, oauthCred))
                    ELSE Put(p, Done(q, [Json(200) EXCEPT !.success = TRUE,
                                           !.hasChanges = q.hasChanges,
                                           !.events = q.allChanges]))
  /\ UNCHANGED <<users, webhooks, hookSeq, oauthCred, now, cal, older, nextEvent, tab>>

\* 161-170: the token is stored, the loop ends, the changes are returned.
SyncStore(p) ==
  LET r == proc[p] IN
  /\ r.pc = "sync_store"
  /\ users' = [users EXCEPT ![r.user].syncToken = TokenToStore(r)]
  /\ Put(p, Done(r, [Json(200) EXCEPT !.success = TRUE, !.hasChanges = r.hasChanges,
                                     !.events = r.allChanges]))
  /\ UNCHANGED <<webhooks, hookSeq, oauthCred, now, cal, older, nextEvent, tab>>

\* A resync that goes on with the changes collected before the 410.
SyncResetKeepsChanges(p) ==
  LET r == proc[p] IN
  /\ r.pc = "sync_reset"
  /\ users' = [users EXCEPT ![r.user].syncToken = NoCursor]
  /\ Put(p, EnterOAuth([r EXCEPT !.syncToken = NoCursor, !.pageToken = NoCursor,
                                 !.page = NoPage, !.sent = << >>, !.served = << >>]))
  /\ UNCHANGED <<webhooks, hookSeq, oauthCred, now, cal, older, nextEvent, tab>>

\* 176-182: the syncToken is cleared and syncCalendarEvents calls itself.
SyncReset(p) ==
  LET r == proc[p] IN
  /\ r.pc = "sync_reset"
  /\ users' = [users EXCEPT ![r.user].syncToken = NoCursor]
  /\ Put(p, EnterOAuth([r EXCEPT !.syncToken = NoCursor, !.pageToken = NoCursor,
                                 !.allChanges = << >>, !.hasChanges = FALSE,
                                 !.page = NoPage, !.sent = << >>, !.served = << >>]))
  /\ UNCHANGED <<webhooks, hookSeq, oauthCred, now, cal, older, nextEvent, tab>>

\* ------------------------------------------------- createEvent, 275-307
\* The upstream accepts an event whose end is after its start.
Insert(p) ==
  LET r == proc[p]
      acct == r.call.tok.owner
  IN
  /\ r.pc = "insert"
  /\ \/ /\ Put(p, Throw(Failed(r, ServerError), ServerError))
        /\ UNCHANGED <<cal, nextEvent>>
     \/ /\ r.start < r.end
        /\ nextEvent[acct] < MaxEvents
        /\ LET e == Ev(nextEvent[acct] + 1, r.summary, r.start, r.end)
           IN /\ cal' = [cal EXCEPT ![acct] = @ \cup {e}]
              /\ nextEvent' = [nextEvent EXCEPT ![acct] = @ + 1]
              /\ Put(p, Done(r, [Json(200) EXCEPT !.success = TRUE,
                                                 !.events = <<CalendarEvent(e)>>]))
  /\ UNCHANGED <<users, webhooks, hookSeq, oauthCred, now, older, tab>>

\* ------------------------------------------- updateEvent and deleteEvent
\* An updateEvent catch block without the branch for 404.
UpdateCatchNo404(e) ==
  IF e.code = 400 /\ (Includes(e.msg, S_birthday) \/ Includes(e.msg, S_notvalid))
    THEN AppErr("Cannot update birthday or system events. These events are managed by Google.")
  ELSE IF e.code = 403
    THEN AppErr("You do not have permission to update this event.")
  ELSE e

\* 379-399: the catch block of updateEvent.
UpdateCatch(e) ==
  IF e.code = 400 /\ (Includes(e.msg, S_birthday) \/ Includes(e.msg, S_notvalid))
    THEN AppErr("Cannot update birthday or system events. These events are managed by Google.")
  ELSE IF e.code = 403
    THEN AppErr("You do not have permission to update this event.")
  ELSE IF e.code = 404
    THEN AppErr("Event not found or has been deleted.")
  ELSE e

\* 443-466: the catch block of deleteEvent.
DeleteCatch(e) ==
  IF e.code = 400 /\ (Includes(e.msg, S_birthday) \/ Includes(e.msg, S_notvalid))
    THEN AppErr("Cannot delete birthday or system events. These events are managed by Google.")
  ELSE IF e.code = 400 /\ Includes(e.msg, S_deleted)
    THEN AppErr("Event has already been deleted.")
  ELSE IF e.code = 403
    THEN AppErr("You do not have permission to delete this event.")
  ELSE IF e.code = 404
    THEN AppErr("Event not found or has already been deleted.")
  ELSE e

EventCatch(r, e) == IF r.op = "update" THEN UpdateCatch(e) ELSE DeleteCatch(e)

\* Guards that let a cancelled event through.
RefusalButCancelled(op, e) ==
  IF e.eventType = "birthday" \/ Includes(ToLowerCase(e.title), S_birthday)
    THEN (IF op = "update"
            THEN "Cannot update birthday events. These events are managed by Google and cannot be modified."
            ELSE "Cannot delete birthday events. These events are managed by Google and cannot be removed.")
  ELSE IF Includes(e.url, S_plus)
    THEN (IF op = "update"
            THEN "Cannot update system events. These events are managed by Google and cannot be modified."
            ELSE "Cannot delete system events. These events are managed by Google and cannot be removed.")
  ELSE ""

\* 327-344 and 418-435: the events the library refuses to touch; "" is none.
Refusal(op, e) ==
  IF e.eventType = "birthday"
    THEN (IF op = "update"
            THEN "Cannot update birthday events. These events are managed by Google and cannot be modified."
            ELSE "Cannot delete birthday events. These events are managed by Google and cannot be removed.")
  ELSE IF Includes(ToLowerCase(e.title), S_birthday)
    THEN (IF op = "update"
            THEN "Cannot update birthday events. These events are managed by Google and cannot be modified."
            ELSE "Cannot delete birthday events. These events are managed by Google and cannot be removed.")
  ELSE IF Includes(e.url, S_plus)
    THEN (IF op = "update"
            THEN "Cannot update system events. These events are managed by Google and cannot be modified."
            ELSE "Cannot delete system events. These events are managed by Google and cannot be removed.")
  ELSE IF e.status = "cancelled"
    THEN (IF op = "update" THEN "Cannot update cancelled events."
                           ELSE "Event is already cancelled")
  ELSE ""

\* Event 0 of a calendar stands for the events that were not created here: the
\* upstream reports any of these for it.
ForeignEvents ==
  { [Ev(0, "x", 0, 1) EXCEPT !.eventType = t, !.title = ti, !.url = u, !.status = st] :
      t \in {"default", "birthday"}, ti \in {S_empty, S_Birthday},
      u \in {S_empty, S_url}, st \in {"confirmed", "cancelled"} }

Stored(acct, id) == {e \in cal[acct] : e.id = id}

\* 318-344 and 409-435: the answer to events.get, the checks, the next call.
Get(p) ==
  LET r == proc[p]
      acct == r.call.tok.owner
      Continue(e) ==
        IF Refusal(r.op, e) # ""
          THEN Throw([r EXCEPT !.seen = e], EventCatch(r, AppErr(Refusal(r.op, e))))
          ELSE [r EXCEPT !.existing = e, !.seen = e,
                         !.pc = r.op,
                         !.call = Call(IF r.op = "update" THEN "events.update"
                                                           ELSE "events.delete", oauthCred)]
  IN
  /\ r.pc = "get"
  /\ \/ \E e \in EventErrors : Put(p, Throw(Failed(r, e), EventCatch(r, e)))
     \/ \E e \in (IF r.eventId = 0 THEN ForeignEvents ELSE Stored(acct, r.eventId)) :
          Put(p, Continue(e))
  /\ UNCHANGED <<users, webhooks, hookSeq, oauthCred, now, cal, older, nextEvent, tab>>

\* 346-378: the answer to events.update.
Update(p) ==
  LET r == proc[p]
      acct == r.call.tok.owner
      e == [r.existing EXCEPT !.summary = r.summary, !.start = r.start, !.end = r.end]
  IN
  /\ r.pc = "update"
  /\ \/ /\ \E x \in EventErrors : Put(p, Throw(Failed(r, x), UpdateCatch(x)))
        /\ UNCHANGED cal
     \/ /\ r.start < r.end
        /\ r.eventId = 0 \/ Stored(acct, r.eventId) # {}
        /\ cal' = [cal EXCEPT ![acct] =
                     IF r.eventId = 0 THEN @ ELSE (@ \ Stored(acct, r.eventId)) \cup {e}]
        /\ Put(p, Done(r, [Json(200) EXCEPT !.success = TRUE,
                                           !.events = <<CalendarEvent(e)>>]))
  /\ UNCHANGED <<users, webhooks, hookSeq, oauthCred, now, older, nextEvent, tab>>

\* 437-441: the answer to events.delete.
Delete(p) ==
  LET r == proc[p]
      acct == r.call.tok.owner
  IN
  /\ r.pc = "delete"
  /\ \/ /\ \E x \in EventErrors : Put(p, Throw(Failed(r, x), DeleteCatch(x)))
        /\ UNCHANGED cal
     \/ /\ r.eventId = 0 \/ Stored(acct, r.eventId) # {}
        /\ cal' = [cal EXCEPT ![acct] = @ \ Stored(acct, r.eventId)]
        /\ Put(p, Done(r, [Json(200) EXCEPT !.success = TRUE]))
  /\ UNCHANGED <<users, webhooks, hookSeq, oauthCred, now, older, nextEvent, tab>>

\* ------------------------------------------ setupWebhook and stopWebhook
Perms(S) ==
  {q \in [1..Cardinality(S) -> S] : \A i, j \in 1..Cardinality(S) : i # j => q[i] # q[j]}

\* 191-197: setupWebhook is entered, `prisma.webhook.findMany` is issued.
EnterWebhook(r, n) ==
  [r EXCEPT !.pc = "wh_find", !.dbs = TRUE, !.hookCalled = TRUE, !.hookNo = n]

\* 200-213: the loop over the existing webhooks: stopWebhook for the next one
\* (channels.stop is called without credentials, 250-255), setupOAuthClient after
\* the last.
NextHook(r) ==
  IF r.hooks = << >>
    THEN EnterOAuth(r)
    ELSE [r EXCEPT !.pc = "wh_stop", !.ups = TRUE, !.call = Call("channels.stop", NoTok)]

\* 195-202: the rows arrive (findMany gives them in no stated order).
WebhookFind(p) ==
  LET r == proc[p] IN
  /\ r.pc = "wh_find"
  /\ \E q \in Perms({w \in webhooks : w.userId = r.user}) :
       Put(p, NextHook([r EXCEPT !.hooks = q]))
  /\ UNCHANGED <<users, webhooks, hookSeq, oauthCred, now, cal, older, nextEvent, tab>>

\* 250-259 and 204-209: the answer to channels.stop; on success the row is deleted
\* by channelId, on failure setupWebhook deletes it by id.
WebhookStop(p) ==
  LET r == proc[p] IN
  /\ r.pc = "wh_stop"
  /\ \/ Put(p, [Failed(r, ServerError) EXCEPT !.pc = "wh_force"])
     \/ Put(p, [r EXCEPT !.pc = "wh_delete", !.call = NoCall])
  /\ UNCHANGED <<users, webhooks, hookSeq, oauthCred, now, cal, older, nextEvent, tab>>

\* 257-265 and 204-209: `prisma.webhook.delete({ where: { channelId } })` throws when
\* the row is gone; setupWebhook then deletes by id.
WebhookDelete(p) ==
  LET r == proc[p]
      hit == {w \in webhooks : w.channelId = Head(r.hooks).channelId}
  IN
  /\ r.pc = "wh_delete"
  /\ webhooks' = webhooks \ hit
  /\ IF hit = {}
       THEN Put(p, [r EXCEPT !.pc = "wh_force"])
       ELSE Put(p, NextHook([r EXCEPT !.hooks = Tail(@)]))
  /\ UNCHANGED <<users, hookSeq, oauthCred, now, cal, older, nextEvent, tab>>

\* 207-209: `prisma.webhook.delete({ where: { id } }).catch(() => {})`.
WebhookForce(p) ==
  LET r == proc[p] IN
  /\ r.pc = "wh_force"
  /\ webhooks' = {w \in webhooks : w.id # Head(r.hooks).id}
  /\ Put(p, NextHook([r EXCEPT !.hooks = Tail(@)]))
  /\ UNCHANGED <<users, hookSeq, oauthCred, now, cal, older, nextEvent, tab>>

\* What a request answers when setupWebhook has returned.
AfterWebhook(r) ==
  IF r.op = "callback" THEN CallbackSession(r)
  ELSE Done(r, [Json(200) EXCEPT !.success = TRUE])

\* A setupWebhook that calls events.watch again when it failed.
WatchAgain(p) ==
  LET r == proc[p] IN
  /\ r.pc = "watch"
  /\ \/ Put(p, [Failed(r, ServerError) EXCEPT !.call = r.call])
     \/ Put(p, [r EXCEPT !.pc = "wh_create", !.dbs = TRUE, !.call = NoCall,
                         !.resourceId = r.call.tok.owner])
  /\ UNCHANGED <<users, webhooks, hookSeq, oauthCred, now, cal, older, nextEvent, tab>>

\* 220-238: the answer to events.watch; on success the row is created.
Watch(p) ==
  LET r == proc[p] IN
  /\ r.pc = "watch"
  /\ \/ Put(p, Throw(Failed(r, ServerError), ServerError))
     \/ Put(p, [r EXCEPT !.pc = "wh_create", !.dbs = TRUE, !.call = NoCall,
                         !.resourceId = r.call.tok.owner])
  /\ UNCHANGED <<users, webhooks, hookSeq, oauthCred, now, cal, older, nextEvent, tab>>

\* 231-244: `prisma.webhook.create`; channelId is unique in the table.
WebhookCreate(p) ==
  LET r == proc[p]
      row == [id |-> r.hookNo, userId |-> r.user, channelId |-> r.channelId,
              resourceId |-> r.resourceId, expiration |-> r.expiration]
  IN
  /\ r.pc = "wh_create"
  /\ IF \E w \in webhooks : w.channelId = r.channelId
       THEN /\ Put(p, Throw(r, AppErr("Unique constraint failed on the fields: (channelId)")))
            /\ UNCHANGED webhooks
       ELSE /\ webhooks' = webhooks \cup {row}
            /\ Put(p, AfterWebhook(r))
  /\ UNCHANGED <<users, hookSeq, oauthCred, now, cal, older, nextEvent, tab>>

\* ------------------------------------------------------- the route handlers
\* Each slot of `proc` is one browser: r1 is u1's, r2 is u2's.  Its request carries no
\* session cookie, a cookie jwt.verify rejects, or the session of its user, once that
\* user has logged in.
Browser(p) == IF p = "r1" THEN "u1" ELSE "u2"

Cookies(p) == {"none", "bad"} \cup ({Browser(p)} \cap DOMAIN users)

\* The start and end of the event a client submits; the first is an empty range.
Spans == {<<1, 1>>} \cup {d \in Times \X Times : d[1] < d[2]}

New(op, cookie) ==
  [Idle EXCEPT !.op = op, !.user = IF cookie \in DOMAIN users THEN cookie ELSE NoUser,
               !.cookie = IF cookie \in DOMAIN users THEN "valid" ELSE cookie]

\* A handler that hands whatever cookie value it got to jwt.verify.
SessionUnchecked(op, cookie, r) ==
  IF cookie \in {"none", "bad"}
    THEN Done(New(op, cookie), HandlerCatch(op, AppErr("invalid token")))
    ELSE r

\* The head of every session-protected handler: the cookie check and jwt.verify;
\* r is the request after the handler's first call with a session.
Session(op, cookie, r) ==
  IF cookie = "none" THEN Done(New(op, cookie), NoSession)
  ELSE IF cookie = "bad" THEN Done(New(op, cookie), HandlerCatch(op, AppErr("invalid token")))
  ELSE r

CreateSummaries == {"S"}

\* GET /api/calendar/events (events/route.ts 115-146)
GetEvents(p) ==
  /\ proc[p].pc = "idle"
  /\ \E c \in Cookies(p) : Put(p, Session("events", c, EnterOAuth(New("events", c))))
  /\ UNCHANGED <<users, webhooks, hookSeq, oauthCred, now, cal, older, nextEvent, tab>>

\* GET /api/calendar/sync (part_001 5-43)
GetSync(p) ==
  /\ proc[p].pc = "idle"
  /\ \E c \in Cookies(p) : Put(p, Session("sync", c, EnterOAuth(New("sync", c))))
  /\ UNCHANGED <<users, webhooks, hookSeq, oauthCred, now, cal, older, nextEvent, tab>>

\* POST /api/calendar/create (part_002 5-25)
PostCreate(p) ==
  /\ proc[p].pc = "idle"
  /\ \E c \in Cookies(p), s \in CreateSummaries, d \in Spans :
       Put(p, Session("create", c,
                      EnterOAuth([New("create", c) EXCEPT !.summary = s, !.start = d[1],
                                                          !.end = d[2]])))
  /\ UNCHANGED <<users, webhooks, hookSeq, oauthCred, now, cal, older, nextEvent, tab>>

\* PUT /api/calendar/events/[eventId] (part_001 49-70)
PutEvent(p) ==
  /\ proc[p].pc = "idle"
  /\ \E c \in Cookies(p), id \in 0..MaxEvents, s \in CreateSummaries, d \in Spans :
       Put(p, Session("update", c,
                      EnterOAuth([New("update", c) EXCEPT !.eventId = id, !.summary = s,
                                                          !.start = d[1], !.end = d[2]])))
  /\ UNCHANGED <<users, webhooks, hookSeq, oauthCred, now, cal, older, nextEvent, tab>>

\* DELETE /api/calendar/events/[eventId] (part_001 72-92)
DeleteEvent(p) ==
  /\ proc[p].pc = "idle"
  /\ \E c \in Cookies(p), id \in 0..MaxEvents :
       Put(p, Session("delete", c, EnterOAuth([New("delete", c) EXCEPT !.eventId = id])))
  /\ UNCHANGED <<users, webhooks, hookSeq, oauthCred, now, cal, older, nextEvent, tab>>

\* POST /api/watch (watch/route.ts 5-36)
PostWatch(p) ==
  /\ proc[p].pc = "idle"
  /\ \E c \in Cookies(p) :
       IF c \in DOMAIN users
         THEN /\ hookSeq < MaxHooks
              /\ hookSeq' = hookSeq + 1
              /\ Put(p, EnterWebhook(New("watch", c), hookSeq + 1))
         ELSE /\ Put(p, Session("watch", c, Idle))
              /\ UNCHANGED hookSeq
  /\ UNCHANGED <<users, webhooks, oauthCred, now, cal, older, nextEvent, tab>>

\* GET /api/auth/user (part_003 86-112): the session's userId and email, no lookup.
GetUser(p) ==
  /\ proc[p].pc = "idle"
  /\ \E c \in Cookies(p) :
       Put(p, Session("user", c, Done(New("user", c), [Json(200) EXCEPT !.success = TRUE])))
  /\ UNCHANGED <<users, webhooks, hookSeq, oauthCred, now, cal, older, nextEvent, tab>>

\* GET force-expire (part_004 5-43): `prisma.user.update` is issued.
GetForceExpire(p) ==
  /\ proc[p].pc = "idle"
  /\ \E c \in Cookies(p) :
       Put(p, Session("expire", c, [New("expire", c) EXCEPT !.pc = "fx_update", !.dbs = TRUE,
                                                             !.expiration = now - ForcedExpiryAge]))
  /\ UNCHANGED <<users, webhooks, hookSeq, oauthCred, now, cal, older, nextEvent, tab>>

\* part_004 21-32: tokenExpiry is set to one hour before the request.
ForceExpire(p) ==
  LET r == proc[p] IN
  /\ r.pc = "fx_update"
  /\ users' = [users EXCEPT ![r.user].tokenExpiry = r.expiration]
  /\ Put(p, Done(r, [Json(200) EXCEPT !.success = TRUE]))
  /\ UNCHANGED <<webhooks, hookSeq, oauthCred, now, cal, older, nextEvent, tab>>

\* POST /api/auth/refresh (refresh/route.ts 12-32): `prisma.user.findUnique` is issued.
PostRefresh(p) ==
  /\ proc[p].pc = "idle"
  /\ \E c \in Cookies(p) :
       Put(p, Session("refresh", c, [New("refresh", c) EXCEPT !.pc = "rf_find", !.dbs = TRUE]))
  /\ UNCHANGED <<users, webhooks, hookSeq, oauthCred, now, cal, older, nextEvent, tab>>

\* refresh/route.ts 34-43: the row arrives; the route's own OAuth client asks the
\* token endpoint.
RefreshFind(p) ==
  LET r == proc[p] IN
  /\ r.pc = "rf_find"
  /\ IF r.user \notin DOMAIN users \/ users[r.user].refreshToken = NoTok
       THEN Put(p, Done(r, [Json(401) EXCEPT !.error = "No refresh token found"]))
       ELSE Put(p, [r EXCEPT !.pc = "rf_token", !.ups = TRUE, !.row = users[r.user],
                             !.call = Call("oauth2.token", users[r.user].refreshToken)])
  /\ UNCHANGED <<users, webhooks, hookSeq, oauthCred, now, cal, older, nextEvent, tab>>

\* refresh/route.ts 43-54 and 64-71: the token endpoint answers.
RefreshToken(p) ==
  LET r == proc[p] IN
  /\ r.pc = "rf_token"
  /\ \/ Put(p, Throw(Failed(r, ApiErr(400, S_other)), ApiErr(400, S_other)))
     \/ \E k \in 1..MaxTokens :
          Put(p, [r EXCEPT !.pc = "rf_update", !.dbs = TRUE, !.call = NoCall,
                           !.newTok = Tok(r.row.refreshToken.owner, k),
                           !.expiration = now + TokenLifetime])
  /\ UNCHANGED <<users, webhooks, hookSeq, oauthCred, now, cal, older, nextEvent, tab>>

\* refresh/route.ts 46-62: the row is updated with the token and its expiry_date.
RefreshUpdate(p) ==
  LET r == proc[p] IN
  /\ r.pc = "rf_update"
  /\ users' = [users EXCEPT ![r.user].accessToken = r.newTok,
                            ![r.user].tokenExpiry = r.expiration]
  /\ Put(p, Done(r, [Json(200) EXCEPT !.success = TRUE]))
  /\ UNCHANGED <<webhooks, hookSeq, oauthCred, now, cal, older, nextEvent, tab>>

\* The response has been sent; the slot serves the next request.
Finish(p) ==
  /\ proc[p].pc = "done"
  /\ Put(p, Idle)
  /\ UNCHANGED <<users, webhooks, hookSeq, oauthCred, now, cal, older, nextEvent, tab>>

\* Time passes.
Tick ==
  /\ now < MaxTime
  /\ now' = now + 1
  /\ UNCHANGED <<users, webhooks, hookSeq, oauthCred, cal, older, nextEvent, proc, tab>>

\* ------------------------------------- GET /api/auth/google/callback
\* callback/route.ts 13-22: without `code` the handler redirects at once; with the
\* code of a Google account it asks the token endpoint.
GetCallback(p) ==
  /\ proc[p].pc = "idle"
  /\ \/ /\ Put(p, Done([Idle EXCEPT !.op = "callback", !.code = "none"],
                        [Json(307) EXCEPT !.redirect = "/login?error=no_code"]))
        /\ UNCHANGED hookSeq
     \/ \E e \in Emails :
          /\ hookSeq < MaxHooks
          /\ hookSeq' = hookSeq + 1
          /\ Put(p, [Idle EXCEPT !.op = "callback", !.pc = "cb_token", !.ups = TRUE,
                                 !.email = e, !.code = e, !.hookNo = hookSeq + 1,
                                 !.call = Call("oauth2.getToken", NoTok)])
  /\ UNCHANGED <<users, webhooks, oauthCred, now, cal, older, nextEvent, tab>>

\* 22-27: the tokens arrive and are installed on the route's own OAuth client, which
\* asks for the user info in the same stretch.  The consent screen is requested with
\* access_type 'offline' and prompt 'consent' (google/route.ts 17-25), so every
\* exchange returns a refresh token.
CallbackToken(p) ==
  LET r == proc[p] IN
  /\ r.pc = "cb_token"
  /\ \/ Put(p, Throw(Failed(r, ApiErr(400, S_other)), ApiErr(400, S_other)))
     \/ \E k \in 1..MaxTokens :
          Put(p, [r EXCEPT !.pc = "cb_userinfo",
                           !.row = [NoRow EXCEPT !.accessToken = Tok(r.email, k),
                                                 !.refreshToken = Tok(r.email, k),
                                                 !.tokenExpiry = now + TokenLifetime],
                           !.call = Call("oauth2.userinfo", Tok(r.email, k))])
  /\ UNCHANGED <<users, webhooks, hookSeq, oauthCred, now, cal, older, nextEvent, tab>>

\* 27-43: the user info arrives (the email of the account the token belongs to);
\* the upsert is issued.
CallbackUserinfo(p) ==
  LET r == proc[p] IN
  /\ r.pc = "cb_userinfo"
  /\ \/ Put(p, Throw(Failed(r, ServerError), ServerError))
     \/ Put(p, [r EXCEPT !.pc = "cb_upsert", !.dbs = TRUE, !.call = NoCall,
                         !.row = [@ EXCEPT !.email = r.call.tok.owner]])
  /\ UNCHANGED <<users, webhooks, hookSeq, oauthCred, now, cal, older, nextEvent, tab>>

\* The ids of the rows with this email.
ByEmail(e) == {u \in DOMAIN users : users[u].email = e}

\* An upsert whose update writes the whole row, syncToken included.
UpsertWholeRow(row, id) ==
  IF ByEmail(row.email) # {}
    THEN [u \in DOMAIN users |-> IF users[u].email = row.email THEN row ELSE users[u]]
    ELSE [u \in DOMAIN users \cup {id} |-> IF u = id THEN row ELSE users[u]]

\* 30-43: `prisma.user.upsert({ where: { email }, update: {...}, create: {...} })`: the
\* table after it, given the id a created row gets.
Upsert(row, id) ==
  IF ByEmail(row.email) # {}
    THEN [u \in DOMAIN users |->
            IF users[u].email = row.email
              THEN [users[u] EXCEPT !.accessToken = row.accessToken,
                                    !.refreshToken = row.refreshToken,
                                    !.tokenExpiry = row.tokenExpiry]
              ELSE users[u]]
    ELSE [u \in DOMAIN users \cup {id} |-> IF u = id THEN row ELSE users[u]]

\* 30-54: the upsert is done (or has failed); setupWebhook is entered for the row.
CallbackUpsert(p) ==
  LET r == proc[p] IN
  /\ r.pc = "cb_upsert"
  /\ \/ /\ Put(p, Throw([r EXCEPT !.lastFail = [api |-> "user.upsert",
                                                   err |-> AppErr("database error")]],
                         AppErr("database error")))
        /\ UNCHANGED users
     \/ \E id \in (IF ByEmail(r.row.email) # {} THEN ByEmail(r.row.email)
                                                ELSE UserIds \ DOMAIN users) :
          /\ users' = Upsert(r.row, id)
          /\ Put(p, EnterWebhook([r EXCEPT !.user = id, !.row = NoRow], r.hookNo))
  /\ UNCHANGED <<webhooks, hookSeq, oauthCred, now, cal, older, nextEvent, tab>>

\* --------------------------- POST /api/webhook: Google's push notifications
NoChannel == <<NoUser, 0>>
ChannelHeaders == {NoChannel, <<"u1", 0>>, <<"u2", 0>>}
StateHeaders == {"", "sync", "exists", "not_exists"}

\* google/route.ts 36-62: the headers are read; a request without channel id or
\* resource state is answered 400, for any other the Webhook row is looked up.
PostWebhook(p) ==
  /\ proc[p].pc = "idle"
  /\ \E ch \in ChannelHeaders, st \in StateHeaders :
       LET r == [Idle EXCEPT !.op = "webhook", !.channelId = ch, !.resourceState = st,
                             !.goog = [channelId |-> ch, resourceState |-> st]]
       IN IF ch = NoChannel \/ st = ""
            THEN Put(p, Done(r, [Json(400) EXCEPT !.error = "Invalid webhook"]))
            ELSE Put(p, [r EXCEPT !.pc = "hk_find", !.dbs = TRUE])
  /\ UNCHANGED <<users, webhooks, hookSeq, oauthCred, now, cal, older, nextEvent, tab>>

\* A receiver that syncs the owner's events on 'exists' before it answers.
WebhookReceiveSyncs(p) ==
  LET r == proc[p]
      hit == {w \in webhooks : w.channelId = r.channelId}
  IN
  /\ r.pc = "hk_find"
  /\ IF hit = {}
       THEN Put(p, Done(r, [Json(404) EXCEPT !.error = "Unknown channel"]))
       ELSE \E w \in hit :
              IF r.resourceState = "exists"
                THEN Put(p, EnterOAuth([r EXCEPT !.op = "sync", !.user = w.userId,
                                                 !.notified = w.userId]))
                ELSE Put(p, Done(r, [Json(200) EXCEPT !.success = TRUE]))
  /\ UNCHANGED <<users, webhooks, hookSeq, oauthCred, now, cal, older, nextEvent, tab>>

\* A receiver that drops the row of a channel whose resource is gone.
WebhookReceiveDrops(p) ==
  LET r == proc[p]
      hit == {w \in webhooks : w.channelId = r.channelId}
  IN
  /\ r.pc = "hk_find"
  /\ IF hit = {}
       THEN /\ Put(p, Done(r, [Json(404) EXCEPT !.error = "Unknown channel"]))
            /\ UNCHANGED webhooks
       ELSE \E w \in hit :
              /\ Put(p, Done([r EXCEPT !.notified = IF r.resourceState = "exists"
                                                     THEN w.userId ELSE NoUser],
                             [Json(200) EXCEPT !.success = TRUE]))
              /\ webhooks' = IF r.resourceState = "not_exists" THEN webhooks \ {w}
                                                               ELSE webhooks
  /\ UNCHANGED <<users, hookSeq, oauthCred, now, cal, older, nextEvent, tab>>

\* 64-88: the row arrives: 404 for an unknown channel, 200 for every resource state
\* of a known one ('exists' is logged; the sync job is a comment).
WebhookReceive(p) ==
  LET r == proc[p]
      hit == {w \in webhooks : w.channelId = r.channelId}
  IN
  /\ r.pc = "hk_find"
  /\ IF hit = {}
       THEN Put(p, Done(r, [Json(404) EXCEPT !.error = "Unknown channel"]))
       ELSE \E w \in hit :
              Put(p, Done([r EXCEPT !.notified = IF r.resourceState = "exists"
                                                  THEN w.userId ELSE NoUser],
                          [Json(200) EXCEPT !.success = TRUE]))
  /\ UNCHANGED <<users, webhooks, hookSeq, oauthCred, now, cal, older, nextEvent, tab>>

\* ------------------------------------- POST /api/auth/logout (part_003 6-81)
\* `response.cookies.set('session', '', { expires: new Date(0), ... })`
Cleared == ""

\* part_003 46-60: the answer after the cleanup block.
LogoutOk(r) == Done(r, [Json(200) EXCEPT !.success = TRUE, !.cookie = Cleared])

\* part_003 62-80: the outer catch.
LogoutFailed(r) == Done(r, [Json(500) EXCEPT !.error = "Logout failed", !.cookie = Cleared])

\* A cleanup whose error reaches the outer catch.
CleanupRethrow(r, api) ==
  LogoutFailed([r EXCEPT !.lastFail = [api |-> api, err |-> AppErr("database error")],
                         !.call = NoCall])

\* part_003 40-43: the catch around the cleanup block: the error is logged, the
\* logout goes on.
CleanupCatch(r, api) ==
  LogoutOk([r EXCEPT !.lastFail = [api |-> api, err |-> AppErr("database error")],
                     !.call = NoCall])

\* part_003 24-39: the loop over the user's webhooks: stopWebhook for the next one,
\* deleteMany after the last.
LogoutNext(r) ==
  IF r.hooks = << >>
    THEN [r EXCEPT !.pc = "lo_purge", !.dbs = TRUE, !.call = NoCall]
    ELSE [r EXCEPT !.pc = "lo_stop", !.ups = TRUE, !.call = Call("channels.stop", NoTok)]

\* part_003 6-22 and 46-80: without a session the cookie is cleared at once, an
\* invalid session makes jwt.verify throw inside the cleanup block, a valid one
\* issues findMany.  An error outside the cleanup block (reading the request) is
\* answered by the outer catch.
PostLogout(p) ==
  /\ proc[p].pc = "idle"
  /\ \E c \in Cookies(p) :
       \/ Put(p, LogoutFailed([New("logout", c) EXCEPT
                                 !.lastFail = [api |-> "request", err |-> AppErr("error")]]))
       \/ /\ c = "none"
          /\ Put(p, LogoutOk(New("logout", c)))
       \/ /\ c = "bad"
          /\ Put(p, CleanupCatch(New("logout", c), "jwt.verify"))
       \/ /\ c \in DOMAIN users
          /\ Put(p, [New("logout", c) EXCEPT !.pc = "lo_find", !.dbs = TRUE])
  /\ UNCHANGED <<users, webhooks, hookSeq, oauthCred, now, cal, older, nextEvent, tab>>

\* part_003 19-26: the rows arrive (or findMany throws).
LogoutFind(p) ==
  LET r == proc[p] IN
  /\ r.pc = "lo_find"
  /\ \/ Put(p, CleanupCatch(r, "webhook.findMany"))
     \/ \E q \in Perms({w \in webhooks : w.userId = r.user}) :
          Put(p, LogoutNext([r EXCEPT !.hooks = q]))
  /\ UNCHANGED <<users, webhooks, hookSeq, oauthCred, now, cal, older, nextEvent, tab>>

\* part_003 25-31 and google-calendar.ts 250-259: the answer to channels.stop; a
\* failure is logged and the loop goes on, after a success stopWebhook deletes the row.
LogoutStop(p) ==
  LET r == proc[p] IN
  /\ r.pc = "lo_stop"
  /\ \/ Put(p, LogoutNext([Failed(r, ServerError) EXCEPT !.hooks = Tail(@)]))
     \/ Put(p, [r EXCEPT !.pc = "lo_delete", !.dbs = TRUE, !.call = NoCall])
  /\ UNCHANGED <<users, webhooks, hookSeq, oauthCred, now, cal, older, nextEvent, tab>>

\* google-calendar.ts 257-265 and part_003 29-31: `prisma.webhook.delete({ where:
\* { channelId } })`; when the row is gone it throws, which the loop logs.
LogoutDelete(p) ==
  LET r == proc[p]
      hit == {w \in webhooks : w.channelId = Head(r.hooks).channelId}
  IN
  /\ r.pc = "lo_delete"
  /\ webhooks' = webhooks \ hit
  /\ Put(p, LogoutNext([r EXCEPT !.hooks = Tail(@)]))
  /\ UNCHANGED <<users, hookSeq, oauthCred, now, cal, older, nextEvent, tab>>

\* A logout that leaves the rows to stopWebhook.
LogoutKeepsRows(p) ==
  LET r == proc[p] IN
  /\ r.pc = "lo_purge"
  /\ Put(p, LogoutOk(r))
  /\ UNCHANGED <<users, webhooks, hookSeq, oauthCred, now, cal, older, nextEvent, tab>>

\* part_003 34-37: `prisma.webhook.deleteMany({ where: { userId } })`.
LogoutPurge(p) ==
  LET r == proc[p] IN
  /\ r.pc = "lo_purge"
  /\ \/ /\ Put(p, CleanupCatch(r, "webhook.deleteMany"))
        /\ UNCHANGED webhooks
     \/ /\ webhooks' = {w \in webhooks : w.userId # r.user}
        /\ Put(p, LogoutOk(r))
  /\ UNCHANGED <<users, hookSeq, oauthCred, now, cal, older, nextEvent, tab>>

\* ------------------------ useSmartPolling (components/EventModal.tsx 917-1006)
\* The tab holds document.hidden, the hook's state and refs, and the timers of the
\* page.  `rendered` is the isActive value of the committed render, the one the
\* closures of the installed effect and of triggerAction were made with; `touched`
\* says that lastAction was set since that render.  `polls` counts the invocations
\* of the callback.
NoTab == [mounted |-> FALSE, hidden |-> FALSE, isActive |-> TRUE, rendered |-> TRUE,
          touched |-> FALSE, intervalRef |-> NoTimer, timers |-> {}, restarts |-> {},
          polls |-> 0]

server == <<users, webhooks, hookSeq, oauthCred, now, cal, older, nextEvent, proc>>

\* setTimeout returns an id that no pending timer has.
TimerIds == 1..MaxTimers
FreeIds(t) == TimerIds \ (t.timers \cup {x.id : x \in t.restarts})
Fresh(t) == CHOOSE i \in FreeIds(t) : \A j \in FreeIds(t) : i <= j

\* 928-937: null when the closure's isActive is false, else one of three positive
\* delays; a pending timer fires at some later moment.
CalculateInterval(isActive) == IF ~isActive THEN "null" ELSE "delay"

\* 939-950: poll() arms a timer when the interval is not null and keeps its id.
StartPolling(t, isActive) ==
  IF CalculateInterval(isActive) # "null"
    THEN [t EXCEPT !.timers = @ \cup {Fresh(t)}, !.intervalRef = Fresh(t)]
    ELSE t

\* 952-957: the timer whose id the ref holds is cleared.
StopPolling(t) ==
  IF t.intervalRef # NoTimer
    THEN [t EXCEPT !.timers = @ \ {t.intervalRef}, !.intervalRef = NoTimer]
    ELSE t

\* 918-921, 959-984: first render (isActive starts true) and first run of the effect.
Mount ==
  /\ ~tab.mounted
  /\ FreeIds(tab) # {}
  /\ tab' = StartPolling([tab EXCEPT !.mounted = TRUE, !.isActive = TRUE,
                                     !.rendered = TRUE, !.touched = FALSE,
                                     !.intervalRef = NoTimer], TRUE)
  /\ UNCHANGED server

\* 986-991: the cleanup of the effect when the component goes away.
Unmount ==
  /\ tab.mounted
  /\ tab' = StopPolling([tab EXCEPT !.mounted = FALSE])
  /\ UNCHANGED server

\* The document changes visibility; 961-973 when the listener is installed.
VisibilityChange ==
  LET hidden == ~tab.hidden
      t == [tab EXCEPT !.hidden = hidden]
      u == [t EXCEPT !.isActive = ~hidden]
  IN
  /\ IF ~tab.mounted
       THEN tab' = t
       ELSE IF ~hidden
         THEN /\ tab.rendered => FreeIds(u) # {}
              /\ tab' = StartPolling(u, tab.rendered)
         ELSE tab' = StopPolling(u)
  /\ UNCHANGED server

\* 975-977: mousedown or keydown.
UserActivity ==
  /\ tab.mounted
  /\ tab' = [tab EXCEPT !.touched = TRUE]
  /\ UNCHANGED server

\* A state change is rendered: startPolling is a new function, so the effect is
\* cleaned up (986-991) and run again (959-984).
Render ==
  /\ tab.mounted
  /\ tab.touched \/ tab.isActive # tab.rendered
  /\ LET t == StopPolling([tab EXCEPT !.rendered = tab.isActive, !.touched = FALSE])
     IN /\ tab.isActive => FreeIds(t) # {}
        /\ tab' = StartPolling(t, tab.isActive)
  /\ UNCHANGED server

\* 994-999: triggerAction, called by the page after a create, update, delete or
\* refresh.
TriggerAction ==
  /\ tab.mounted
  /\ LET t == StopPolling([tab EXCEPT !.touched = TRUE])
     IN /\ FreeIds(t) # {}
        /\ tab' = [t EXCEPT !.restarts = @ \cup {[id |-> Fresh(t),
                                                  isActive |-> tab.rendered]}]
  /\ UNCHANGED server

\* 998: the timer of triggerAction fires and calls the startPolling it was given.
RestartFire ==
  /\ \E x \in tab.restarts :
       tab' = StartPolling([tab EXCEPT !.restarts = @ \ {x}], x.isActive)
  /\ UNCHANGED server

\* 943-946: a poll timer fires: the callback is invoked and poll() runs again.  A
\* poll timer was armed by a closure whose isActive is true.
PollFire ==
  /\ tab.polls < MaxPolls
  /\ \E i \in tab.timers :
       tab' = StartPolling([tab EXCEPT !.timers = @ \ {i}, !.polls = @ + 1], TRUE)
  /\ UNCHANGED server

\* ------------------------------------------------------------ the system
Row(e) == [email |-> e, accessToken |-> Tok(e, 0), refreshToken |-> Tok(e, 0),
           tokenExpiry |-> TokenLifetime, syncToken |-> NoCursor]

OlderChoices == {0, FetchMaxResults - 1, FetchMaxResults}

\* Two users have logged in at time 0; no request is being served.
InitCal ==
  /\ users = [u \in UserIds |-> Row(IF u = "u1" THEN "a@x" ELSE "b@x")]
  /\ webhooks = {}
  /\ hookSeq = 0
  /\ oauthCred = NoTok
  /\ now = 0
  /\ cal = [e \in Emails |-> {}]
  /\ older \in OlderChoices
  /\ nextEvent = [e \in Emails |-> 0]
  /\ proc = [p \in Procs |-> Idle]
  /\ tab = NoTab

OAuthSteps(p) == OAuthFind(p) \/ OAuthRefresh(p) \/ OAuthUpdate(p)

\* Concurrent syncs: GET /api/calendar/sync of two users, served at the same time.
InitSync == InitCal /\ older = 0

NextSync ==
  \E p \in Procs :
    \/ GetSync(p) \/ OAuthFind(p) \/ SyncFind(p) \/ SyncList(p) \/ SyncStore(p) \/ SyncReset(p)
    \/ Finish(p)

SpecSync == InitSync /\ [][NextSync]_vars

\* One browser, one request at a time, every session-protected endpoint.  The clock
\* stands still; force-expire makes the token expire.
One == {"r1"}

InitOne ==
  /\ users = [u \in {"u1"} |-> Row("a@x")]
  /\ webhooks = {}
  /\ hookSeq = 0
  /\ oauthCred = NoTok
  /\ now = 0
  /\ cal = [e \in Emails |-> {}]
  /\ older \in OlderChoices
  /\ nextEvent = [e \in Emails |-> 0]
  /\ proc = [p \in Procs |-> Idle]
  /\ tab = NoTab

Init == InitOne /\ older = 0

Next ==
  \E p \in One :
    \/ GetEvents(p) \/ GetSync(p) \/ PostCreate(p) \/ PutEvent(p) \/ DeleteEvent(p)
    \/ PostWatch(p) \/ PostRefresh(p) \/ GetUser(p) \/ GetForceExpire(p)
    \/ OAuthFind(p) \/ OAuthRefresh(p) \/ OAuthUpdate(p)
    \/ FetchList(p)
    \/ SyncFind(p) \/ SyncList(p) \/ SyncStore(p) \/ SyncReset(p)
    \/ Insert(p) \/ Get(p) \/ Update(p) \/ Delete(p)
    \/ WebhookFind(p) \/ WebhookStop(p) \/ WebhookDelete(p) \/ WebhookForce(p)
    \/ Watch(p) \/ WebhookCreate(p)
    \/ ForceExpire(p) \/ RefreshFind(p) \/ RefreshToken(p) \/ RefreshUpdate(p)
    \/ Finish(p)

Spec == Init /\ [][Next]_vars

\* One browser creating, changing, deleting and listing events while time passes.
NextCrud ==
  \/ \E p \in One :
       \/ GetEvents(p) \/ PostCreate(p) \/ PutEvent(p) \/ DeleteEvent(p)
       \/ OAuthFind(p) \/ OAuthRefresh(p) \/ OAuthUpdate(p)
       \/ FetchList(p) \/ Insert(p) \/ Get(p) \/ Update(p) \/ Delete(p)
       \/ Finish(p)
  \/ Tick

SpecCrud == InitOne /\ [][NextCrud]_vars

\* Logins: OAuth callbacks of two browsers, served at the same time; the table is
\* empty or holds a user who has logged in and synced before.
InitAuth ==
  /\ users \in {[u \in {} |-> NoRow],
                [u \in {"u1"} |-> [Row("a@x") EXCEPT !.syncToken = 1]]}
  /\ webhooks = {}
  /\ hookSeq = 0
  /\ oauthCred = NoTok
  /\ now = 0
  /\ cal = [e \in Emails |-> {}]
  /\ older = 0
  /\ nextEvent = [e \in Emails |-> 0]
  /\ proc = [p \in Procs |-> Idle]
  /\ tab = NoTab

NextAuth ==
  \E p \in Procs :
    \/ GetCallback(p) \/ CallbackToken(p) \/ CallbackUserinfo(p) \/ CallbackUpsert(p)
    \/ WebhookFind(p) \/ WebhookStop(p) \/ WebhookDelete(p) \/ WebhookForce(p)
    \/ OAuthFind(p) \/ Watch(p) \/ WebhookCreate(p)
    \/ Finish(p)

SpecAuth == InitAuth /\ [][NextAuth]_vars

\* Push notifications: u1 has a webhook channel; Google posts notifications (served in
\* slot r2) while u1's browser polls GET /api/calendar/sync (slot r1).
Google == {"r2"}

InitPush ==
  /\ users = [u \in UserIds |-> Row(IF u = "u1" THEN "a@x" ELSE "b@x")]
  /\ webhooks = {[id |-> 1, userId |-> "u1", channelId |-> <<"u1", 0>>,
                  resourceId |-> "a@x", expiration |-> WatchLifetime]}
  /\ hookSeq = 1
  /\ oauthCred = NoTok
  /\ now = 0
  /\ cal = [e \in Emails |-> {}]
  /\ older = 0
  /\ nextEvent = [e \in Emails |-> 0]
  /\ proc = [p \in Procs |-> Idle]
  /\ tab = NoTab

\* What the server does by itself once a request is in.
ServerPush ==
  \/ \E p \in Google : WebhookReceive(p) \/ Finish(p)
  \/ \E p \in One : OAuthFind(p) \/ SyncFind(p) \/ SyncList(p) \/ SyncStore(p) \/ SyncReset(p)
                      \/ Finish(p)

NextPush ==
  \/ \E p \in Google : PostWebhook(p)
  \/ \E p \in One : GetSync(p)
  \/ ServerPush

SpecPush == InitPush /\ [][NextPush]_vars

\* The server serves every request it has accepted; whether a notification or a poll
\* arrives is up to Google and to the browser.
FairPush == SpecPush /\ WF_vars(ServerPush)

\* Webhook setup: POST /api/watch and OAuth callbacks, served at the same time, while
\* time passes.  Requests that read the clock between two ticks read the same
\* Date.now().
InitHook ==
  /\ users = [u \in {"u1"} |-> Row("a@x")]
  /\ webhooks = {}
  /\ hookSeq = 0
  /\ oauthCred = NoTok
  /\ now = 0
  /\ cal = [e \in Emails |-> {}]
  /\ older = 0
  /\ nextEvent = [e \in Emails |-> 0]
  /\ proc = [p \in Procs |-> Idle]
  /\ tab = NoTab

NextWatch ==
  \/ \E p \in Procs :
       \/ PostWatch(p) \/ GetCallback(p)
       \/ CallbackToken(p) \/ CallbackUserinfo(p) \/ CallbackUpsert(p)
       \/ WebhookFind(p) \/ WebhookStop(p) \/ WebhookDelete(p) \/ WebhookForce(p)
       \/ OAuthFind(p) \/ OAuthRefresh(p) \/ OAuthUpdate(p)
       \/ Watch(p) \/ WebhookCreate(p)
       \/ Finish(p)
  \/ Tick

SpecWatch == InitHook /\ [][NextWatch]_vars

\* Logouts of two users, served at the same time; each user has up to two channels.
HookRow(n, u, t) == [id |-> n, userId |-> u, channelId |-> <<u, t>>,
                     resourceId |-> users[u].email, expiration |-> t + WatchLifetime]

InitLogout ==
  /\ users = [u \in UserIds |-> Row(IF u = "u1" THEN "a@x" ELSE "b@x")]
  /\ webhooks \in SUBSET {HookRow(1, "u1", 0), HookRow(2, "u1", 1), HookRow(3, "u2", 0),
                           HookRow(4, "u2", 1)}
  /\ hookSeq = 4
  /\ oauthCred = NoTok
  /\ now = 0
  /\ cal = [e \in Emails |-> {}]
  /\ older = 0
  /\ nextEvent = [e \in Emails |-> 0]
  /\ proc = [p \in Procs |-> Idle]
  /\ tab = NoTab

NextLogout ==
  \E p \in Procs :
    \/ PostLogout(p) \/ LogoutFind(p) \/ LogoutStop(p) \/ LogoutDelete(p) \/ LogoutPurge(p)
    \/ Finish(p)

SpecLogout == InitLogout /\ [][NextLogout]_vars

\* The calendar page in one tab: the component mounts in a visible or hidden tab;
\* the user shows and hides the tab, clicks and types, and the page calls
\* triggerAction; timers fire whenever they are pending.
InitPoll ==
  /\ users = [u \in {"u1"} |-> Row("a@x")]
  /\ webhooks = {}
  /\ hookSeq = 0
  /\ oauthCred = NoTok
  /\ now = 0
  /\ cal = [e \in Emails |-> {}]
  /\ older = 0
  /\ nextEvent = [e \in Emails |-> 0]
  /\ proc = [p \in Procs |-> Idle]
  /\ tab \in {NoTab, [NoTab EXCEPT !.hidden = TRUE]}

NextPoll ==
  \/ Mount \/ Unmount \/ VisibilityChange \/ UserActivity \/ Render \/ TriggerAction
  \/ RestartFire \/ PollFire

SpecPoll == InitPoll /\ [][NextPoll]_vars

\* ================================================================== properties
CalendarApis == {"events.list", "events.get", "events.insert", "events.update",
                 "events.delete", "events.watch"}

\* C1: under any interleaving of concurrently served requests of different users,
\* every upstream Calendar call issued while serving user U carries U's own access
\* token, never the credentials installed on the shared client for another user.
C1_OwnToken ==
  \A p \in Procs :
    (proc[p].call.api \in CalendarApis /\ proc[p].user \in DOMAIN users)
      => proc[p].call.tok.owner = users[proc[p].user].email

RECURSIVE AllItems(_)
AllItems(pages) ==
  IF pages = << >> THEN << >> ELSE Head(pages).items \o AllItems(Tail(pages))

\* A sync of request p ends with this step, answered 200, no upstream call having failed.
SyncCompletes(p) ==
  /\ proc[p].op = "sync"
  /\ proc[p].pc \in {"sync_list", "sync_store"}
  /\ proc'[p].pc = "done"
  /\ proc'[p].resp.status = 200
  /\ proc'[p].lastFail = NoFail

\* C2: when no upstream call fails, syncCalendarEvents sends the user's stored
\* syncToken on every page request, follows nextPageToken until a page carries none,
\* returns the items of all pages in page order, and stores as the user's syncToken
\* exactly the nextSyncToken of the last page.
C2_SyncPassThrough ==
  [][\A p \in Procs :
       SyncCompletes(p) =>
         LET r == proc'[p]
             n == Len(r.served)
         IN /\ n >= 1
            /\ Len(r.sent) = n
            /\ r.startToken = users[r.user].syncToken
            /\ \A i \in 1..n : r.sent[i].syncToken = r.startToken
            /\ r.sent[1].pageToken = NoCursor
            /\ \A i \in 2..n : /\ r.served[i - 1].nextPageToken # NoCursor
                                /\ r.sent[i].pageToken = r.served[i - 1].nextPageToken
            /\ r.served[n].nextPageToken = NoCursor
            /\ r.resp.events = MapEvents(AllItems(r.served))
            /\ users'[r.user].syncToken = r.served[n].nextSyncToken]_vars

\* A sync over two pages, started from a stored syncToken, has stored the token of
\* its second page.
C2_Witness ==
  \E p \in Procs :
    /\ proc[p].op = "sync" /\ proc[p].pc = "done" /\ proc[p].resp.status = 200
    /\ proc[p].lastFail = NoFail
    /\ proc[p].startToken # NoCursor
    /\ Len(proc[p].served) = 2
    /\ Len(proc[p].resp.events) = 2
    /\ users[proc[p].user].syncToken = proc[p].served[2].nextSyncToken

SessionOps == {"events", "sync", "create", "update", "delete", "watch", "refresh", "user",
               "expire"}

\* C3: for every session-protected endpoint (GET events, GET sync, POST create, PUT
\* and DELETE of an event, POST watch, POST refresh, GET user, GET force-expire), a
\* request without session cookie is answered with status 401 and error 'No session
\* found', and causes no upstream call and no database read or write.
C3_NoSession ==
  [][\A p \in Procs :
       (proc[p].pc = "idle" /\ proc'[p].op \in SessionOps /\ proc'[p].cookie = "none")
         => /\ proc'[p].pc = "done"
            /\ proc'[p].resp = NoSession
            /\ proc'[p].resp.status = 401
            /\ proc'[p].resp.error = "No session found"
            /\ ~proc'[p].ups
            /\ ~proc'[p].dbs
            /\ proc'[p].call = NoCall
            /\ UNCHANGED <<users, webhooks, hookSeq, oauthCred, cal>>]_vars

\* A force-expire request without cookie has been answered 401.
C3_Witness ==
  \E p \in Procs :
    /\ proc[p].op = "expire" /\ proc[p].cookie = "none" /\ proc[p].pc = "done"
    /\ proc[p].resp.status = 401

EventApis == {"events.get", "events.update", "events.delete"}

\* An update or delete of request p has ended after one of its upstream calls failed.
EventFailed(p) ==
  /\ proc[p].op \in {"update", "delete"}
  /\ proc[p].pc = "done"
  /\ proc[p].lastFail.api \in EventApis

\* C4 as stated: every upstream error raised while updating or deleting an event is
\* re-surfaced as a user-friendly message, never passed on unchanged.
C4_AlwaysFriendly ==
  \A p \in Procs :
    EventFailed(p) => /\ proc[p].resp.details.kind = "app"
                      /\ proc[p].resp.details # proc[p].lastFail.err

\* The upstream errors the catch blocks of updateEvent and deleteEvent replace.
Replaced(op, e) ==
  \/ e.code \in {403, 404}
  \/ e.code = 400 /\ e.msg \in {S_isbirthday, S_notvalid}
  \/ e.code = 400 /\ op = "delete" /\ e.msg = S_wasdeleted

\* C4, amended: an upstream error of events.get, events.update or events.delete is
\* replaced by a user-friendly message when its code is 403 or 404, or 400 with a
\* message naming a birthday or an invalid event type (for a delete also a deleted
\* event); every other upstream error is rethrown unchanged, and the route handler
\* answers 500 with it as details.
C4_FriendlyWhenKnown ==
  \A p \in Procs :
    EventFailed(p) =>
      LET r == proc[p] IN
      /\ r.resp.status = 500
      /\ r.resp.error = (IF r.op = "update" THEN "Failed to update event"
                                            ELSE "Failed to delete event")
      /\ IF Replaced(r.op, r.lastFail.err)
           THEN r.resp.details.kind = "app" /\ r.resp.details.text # ""
           ELSE r.resp.details = r.lastFail.err

\* An update whose events.update was answered 404 has been answered with the text
\* for a missing event.
C4_Witness ==
  \E p \in Procs :
    /\ EventFailed(p)
    /\ proc[p].op = "update"
    /\ proc[p].lastFail = [api |-> "events.update", err |-> ApiErr(404, S_other)]
    /\ proc[p].resp.details = AppErr("Event not found or has been deleted.")

\* C5 as stated: an upstream call that failed is never followed by a re-issue of
\* that call; the failure ends the operation with an error.
C5_FailureEnds ==
  \A p \in Procs :
    proc[p].lastFail # NoFail => proc[p].pc = "done" /\ proc[p].resp.status = 500

\* C5, amended: an upstream call that failed ends the operation with an error and is
\* not issued again, except that (a) after a 410 on events.list syncCalendarEvents
\* clears the user's syncToken and starts over, issuing events.list again without
\* syncToken, and (b) a failed channels.stop in setupWebhook is passed over: the row
\* is deleted and setupWebhook goes on.
C5_FailureEndsExcept ==
  \A p \in Procs :
    LET r == proc[p] IN
    r.lastFail # NoFail =>
      \/ r.pc = "done" /\ r.resp.status = 500 /\ r.call = NoCall
      \/ /\ r.op = "sync"
         /\ r.lastFail = [api |-> "events.list", err |-> Gone]
         /\ r.pc \in {"sync_reset", "oa_find", "oa_refresh", "oa_update", "sync_find",
                       "sync_list", "sync_store", "done"}
         /\ r.pc = "sync_list" => r.call.syncToken = NoCursor
         /\ r.pc = "done" => r.resp.status = 200
      \/ /\ r.op = "watch"
         /\ r.lastFail.api = "channels.stop"
         /\ r.pc \in {"wh_force", "wh_stop", "wh_delete", "oa_find", "oa_refresh",
                       "oa_update", "watch", "wh_create", "done"}

\* A setupWebhook whose events.watch failed has ended with status 500.
C5_Witness ==
  \E p \in Procs :
    /\ proc[p].op = "watch" /\ proc[p].pc = "done" /\ proc[p].resp.status = 500
    /\ proc[p].lastFail = [api |-> "events.watch", err |-> ServerError]

\* The receiver has answered an 'exists' notification for a channel of user u.
Notified(u) == \E p \in Procs : proc[p].pc = "done" /\ proc[p].notified = u

\* The server is syncing or fetching the events of user u.
Refreshing(u) ==
  \E p \in Procs : /\ proc[p].user = u
                    /\ proc[p].op \in {"sync", "events"}
                    /\ proc[p].pc \notin {"idle", "done"}

\* C6 as stated: a push notification with resource state 'exists' received for a
\* registered channel leads to a sync or refresh of the events of the channel's owner.
C6_NotificationLeadsToSync == \A u \in UserIds : Notified(u) ~> Refreshing(u)

\* C6, amended: the webhook endpoint only answers a notification: for 'exists' on a
\* registered channel it replies 200 without any upstream call, without starting a
\* sync and without changing a row; the events of a user are synced only when a
\* client requests GET /api/calendar/sync.
C6_NotificationOnlyAnswered ==
  [][/\ \A p \in Procs :
          (proc[p].op = "webhook" /\ proc[p].pc = "hk_find" /\ proc'[p] # proc[p])
            => /\ proc'[p].pc = "done"
               /\ proc'[p].op = "webhook"
               /\ ~proc'[p].ups
               /\ proc'[p].call = NoCall
               /\ proc'[p].notified # NoUser => proc'[p].resp.status = 200
               /\ UNCHANGED <<users, webhooks, oauthCred, cal>>
               /\ \A q \in Procs \ {p} : proc'[q] = proc[q]
     /\ \A p \in Procs :
          (proc'[p].op = "sync" /\ proc[p].op # "sync")
            => proc[p].pc = "idle" /\ proc'[p].cookie # ""]_vars

\* An 'exists' notification for u1's channel has been answered 200 while no request
\* of u1 is being served.
C6_Witness ==
  /\ \E p \in Procs : /\ proc[p].op = "webhook" /\ proc[p].pc = "done"
                        /\ proc[p].notified = "u1" /\ proc[p].resp.status = 200
  /\ ~Refreshing("u1")

\* Events of the calendar that are upcoming at t and come before e in the listing.
Ahead(acct, e, t) == {f \in cal[acct] : f.end > t /\ f # e /\ Before(f, e)}

\* A GET /api/calendar/events of request p has been answered with a list.
Listed(p) ==
  /\ proc[p].op = "events" /\ proc[p].pc = "done" /\ proc[p].resp.status = 200
  /\ proc[p].user \in DOMAIN users

InList(e, events) == \E i \in 1..Len(events) : events[i] = CalendarEvent(e)

\* C7 as stated: an event created through POST /api/calendar/create is contained in
\* the result of the next GET /api/calendar/events of its user, for every start and
\* end the create accepted and every number of events already in the calendar,
\* provided nobody deletes it in between.
C7_RoundTrip ==
  \A p \in Procs :
    Listed(p) => \A e \in cal[users[proc[p].user].email] : InList(e, proc[p].resp.events)

\* C7, amended: a created event that nobody deleted is contained in the result of a
\* GET /api/calendar/events of its user if it ends after the time of the fetch and
\* fewer than 100 upcoming events come before it in start order; events that have
\* ended, and events beyond the first 100, are not returned.
C7_RoundTripUpcoming ==
  \A p \in Procs :
    Listed(p) =>
      LET r == proc[p]
          acct == users[r.user].email
      IN /\ \A e \in cal[acct] :
              InList(e, r.resp.events)
                <=> /\ e.end > r.timeMin
                    /\ older + Cardinality(Ahead(acct, e, r.timeMin)) < FetchMaxResults
         /\ r.resp.nOlder + Len(r.resp.events) <= FetchMaxResults

\* A list of 100 events has been returned that ends with the event the user created.
C7_Witness ==
  \E p \in Procs :
    /\ Listed(p)
    /\ older = FetchMaxResults - 1
    /\ Len(proc[p].resp.events) = 1
    /\ \E e \in cal[users[proc[p].user].email] : InList(e, proc[p].resp.events)

\* An OAuth callback of request p has been answered.
CallbackDone(p) == proc[p].op = "callback" /\ proc[p].pc = "done"

LoginSteps == {"oauth2.getToken", "oauth2.userinfo", "user.upsert"}

\* C8: without a code parameter the callback redirects to /login?error=no_code and
\* touches neither upstream nor the database; when the token exchange, the userinfo
\* lookup or the user upsert fails it redirects to /login?error=auth_failed; in both
\* cases no session cookie is set and setupWebhook is not called.
C8_CallbackFailure ==
  \A p \in Procs :
    CallbackDone(p) =>
      LET r == proc[p] IN
      /\ r.code = "none" => /\ r.resp.redirect = "/login?error=no_code"
                            /\ ~r.ups /\ ~r.dbs
      /\ r.lastFail.api \in LoginSteps => r.resp.redirect = "/login?error=auth_failed"
      /\ (r.code = "none" \/ r.lastFail.api \in LoginSteps)
           => r.resp.cookie = NoUser /\ ~r.hookCalled

\* A callback whose upsert failed has been answered.
C8_Witness ==
  \E p \in Procs :
    /\ CallbackDone(p)
    /\ proc[p].lastFail.api = "user.upsert"
    /\ proc[p].resp.redirect = "/login?error=auth_failed"

\* C9: whenever the token exchange, userinfo lookup and user upsert succeeded, the
\* callback sets the session cookie for that user and redirects to /calendar, whether
\* setupWebhook succeeded or threw.
C9_WebhookNonBlocking ==
  \A p \in Procs :
    (CallbackDone(p) /\ proc[p].hookCalled) =>
      LET r == proc[p] IN
      /\ r.resp.redirect = "/calendar"
      /\ r.user \in DOMAIN users
      /\ r.resp.cookie = r.user
      /\ users[r.user].email = r.code

\* A login has succeeded although the events.watch of its setupWebhook failed.
C9_Witness ==
  \E p \in Procs :
    /\ CallbackDone(p)
    /\ proc[p].hookCalled
    /\ proc[p].lastFail.api = "events.watch"
    /\ proc[p].resp.cookie = proc[p].user
    /\ proc[p].resp.redirect = "/calendar"

UniqueEmails == \A u, v \in DOMAIN users : users[u].email = users[v].email => u = v

\* The upsert of request p succeeds with this step.
Upserted(p) ==
  /\ proc[p].pc = "cb_upsert"
  /\ proc'[p].pc # "cb_upsert"
  /\ proc'[p].hookCalled

\* C10: after any sequence and interleaving of OAuth callbacks there is at most one
\* User row per email address; a repeated login with an email that already has a row
\* replaces that row's accessToken, refreshToken and tokenExpiry and leaves its id and
\* syncToken unchanged.
C10_OneRowPerEmail ==
  /\ UniqueEmails
  /\ [][/\ UniqueEmails'
        /\ \A p \in Procs :
             (Upserted(p) /\ ByEmail(proc[p].row.email) # {}) =>
               LET row == proc[p].row IN
               /\ DOMAIN users' = DOMAIN users
               /\ \A u \in DOMAIN users :
                    IF users[u].email = row.email
                      THEN /\ proc'[p].user = u
                           /\ users'[u].email = row.email
                           /\ users'[u].accessToken = row.accessToken
                           /\ users'[u].refreshToken = row.refreshToken
                           /\ users'[u].tokenExpiry = row.tokenExpiry
                           /\ users'[u].syncToken = users[u].syncToken
                      ELSE users'[u] = users[u]]_vars

\* u1, who had synced before, has logged in again: the row has the new tokens and the
\* old syncToken.
C10_Witness ==
  \E p \in Procs :
    /\ proc[p].op = "callback" /\ proc[p].pc = "wh_find" /\ proc[p].user = "u1"
    /\ users["u1"].accessToken = Tok("a@x", 1)
    /\ users["u1"].syncToken = 1

\* Request p is in setupWebhook and has made its watch request.
ReachedWatch(p) == proc[p].pc \in {"watch", "wh_create"}

\* C11: any two setupWebhook calls that reach the watch request, for the same or for
\* different users and however close in time, use different channelIds, so creating
\* the Webhook row never violates the uniqueness constraint on channelId.
C11_UniqueChannelId ==
  /\ \A p, q \in Procs :
       (p # q /\ ReachedWatch(p) /\ ReachedWatch(q)) => proc[p].channelId # proc[q].channelId
  /\ \A p \in Procs :
       proc[p].pc = "wh_create" => \A w \in webhooks : w.channelId # proc[p].channelId

\* The Webhook rows of user u.
HooksOf(u) == {w \in webhooks : w.userId = u}

\* A setupWebhook call for user u is under way.
SettingUp(u) ==
  \E p \in Procs : /\ proc[p].user = u
                    /\ proc[p].hookCalled
                    /\ proc[p].pc \notin {"idle", "done"}

\* C12: after any sequence or interleaving of setupWebhook calls for one user (OAuth
\* callback and POST /api/watch) that have all completed, that user has at most one
\* Webhook row.
C12_OneWebhookPerUser ==
  \A u \in DOMAIN users : ~SettingUp(u) => Cardinality(HooksOf(u)) <= 1

\* A logout of request p has been answered.
LogoutDone(p) == proc[p].op = "logout" /\ proc[p].pc = "done"

\* C13: every response of POST /api/auth/logout clears the session cookie: with no
\* session cookie, with an invalid session, when stopping a webhook upstream fails,
\* and when the database cleanup throws; in all of these except an error outside the
\* cleanup block the response is 200 with success true.
C13_LogoutClearsCookie ==
  \A p \in Procs :
    LogoutDone(p) =>
      LET r == proc[p] IN
      /\ r.resp.cookie = Cleared
      /\ IF r.lastFail.api = "request"
           THEN r.resp.status = 500 /\ ~r.resp.success
           ELSE r.resp.status = 200 /\ r.resp.success

\* A logout whose deleteMany threw has been answered.
C13_Witness ==
  \E p \in Procs :
    /\ LogoutDone(p)
    /\ proc[p].lastFail.api = "webhook.deleteMany"
    /\ proc[p].cookie = "valid"
    /\ proc[p].resp.cookie = Cleared

\* The deleteMany of the logout of request p succeeds with this step.
Purged(p) ==
  /\ proc[p].pc = "lo_purge"
  /\ proc'[p].pc = "done"
  /\ proc'[p].lastFail.api # "webhook.deleteMany"

\* C14: after a logout with a valid session during which the database operations
\* succeed, no Webhook row of that user remains, whether each upstream channels.stop
\* call succeeded or failed, and the Webhook rows of other users are unchanged.
C14_LogoutRemovesWebhooks ==
  [][\A p \in Procs :
       /\ Purged(p) => {w \in webhooks' : w.userId = proc[p].user} = {}
       /\ (proc[p].op = "logout" /\ proc'[p] # proc[p])
            => {w \in webhooks' : w.userId # proc[p].user}
                 = {w \in webhooks : w.userId # proc[p].user}]_vars

\* u1 is logged out after a channels.stop that failed: no row of u1 is left, u2 has
\* its two rows.
C14_Witness ==
  \E p \in Procs :
    /\ LogoutDone(p)
    /\ proc[p].user = "u1"
    /\ proc[p].lastFail.api = "channels.stop"
    /\ {w \in webhooks : w.userId = "u1"} = {}
    /\ Cardinality({w \in webhooks : w.userId = "u2"}) = 2

\* The events updateEvent and deleteEvent must leave alone.
Protected(e) ==
  \/ e.eventType = "birthday"
  \/ \E i \in 1..Len(e.title) :
       /\ i + 7 <= Len(e.title)
       /\ e.title[i] \in {"b", "B"}
       /\ SubSeq(e.title, i + 1, i + 7) = Tail(S_birthday)
  \/ \E i \in 1..Len(e.url) : SubSeq(e.url, i, i + Len(S_plus) - 1) = S_plus
  \/ e.status = "cancelled"

\* C15: updateEvent never issues events.update, and deleteEvent never issues
\* events.delete, for an event that the preceding events.get reported with eventType
\* 'birthday', with a source title containing 'birthday' (case-insensitive), with a
\* source url containing 'plus.google.com', or with status 'cancelled'; in each of
\* these cases the operation throws and the handler answers 500.
C15_ProtectedEvents ==
  \A p \in Procs :
    LET r == proc[p] IN
    (r.op \in {"update", "delete"} /\ Protected(r.seen)) =>
      /\ r.call.api \notin {"events.update", "events.delete"}
      /\ r.pc = "done"
      /\ r.resp.status = 500
      /\ r.resp.details.kind = "app"
      /\ r.lastFail = NoFail

\* A delete of an event that is only cancelled has been refused.
C15_Witness ==
  \E p \in Procs :
    /\ proc[p].op = "delete" /\ proc[p].pc = "done"
    /\ proc[p].seen.status = "cancelled"
    /\ proc[p].seen.eventType = "default"
    /\ proc[p].seen.title = S_empty /\ proc[p].seen.url = S_empty
    /\ proc[p].resp.status = 500
    /\ proc[p].resp.details = AppErr("Event is already cancelled")

OAuthPcs == {"oa_find", "oa_refresh", "oa_update"}

\* C16: if the user's stored tokenExpiry is not later than the current time,
\* setupOAuthClient obtains a new access token with the stored refresh token, stores
\* that access token with a tokenExpiry one hour ahead and leaves refreshToken
\* unchanged, before the caller makes any Calendar call; if tokenExpiry is later than
\* the current time it makes no refresh call and changes nothing in the User row.
C16_RefreshWhenNeeded ==
  [][\A p \in Procs :
       LET r == proc[p]
           q == proc'[p]
       IN
       /\ r.pc \in OAuthPcs => r.call.api \notin CalendarApis
       /\ (r.pc = "oa_find" /\ q # r /\ r.user \in DOMAIN users) =>
            LET u == users[r.user] IN
            /\ users' = users
            /\ IF u.tokenExpiry <= now
                 THEN /\ q.pc = "oa_refresh"
                      /\ q.call = Call("oauth2.token", u.refreshToken)
                 ELSE /\ q.pc \notin OAuthPcs
                      /\ q.call.api # "oauth2.token"
                      /\ q.call.api \in CalendarApis => q.call.tok = u.accessToken
       /\ (r.pc = "oa_refresh" /\ q.pc = "oa_update") =>
            /\ users' = users
            /\ q.expiration = now + TokenLifetime
       /\ (r.pc = "oa_update" /\ q # r) =>
            /\ q.pc \notin OAuthPcs
            /\ DOMAIN users' = DOMAIN users
            /\ \A id \in DOMAIN users :
                 IF id = r.user
                   THEN /\ users'[id].accessToken = r.newTok
                        /\ users'[id].tokenExpiry = r.expiration
                        /\ users'[id].refreshToken = users[id].refreshToken
                        /\ users'[id].email = users[id].email
                        /\ users'[id].syncToken = users[id].syncToken
                   ELSE users'[id] = users[id]
            /\ q.call.api \in CalendarApis => q.call.tok = r.newTok]_vars

\* A Calendar call goes out with a token that was refreshed just now: the row holds
\* it with an expiry one hour ahead and the refresh token of the login.
C16_Witness ==
  \E p \in Procs :
    /\ proc[p].call.api \in CalendarApis
    /\ proc[p].user \in DOMAIN users
    /\ now >= 1
    /\ proc[p].call.tok = users[proc[p].user].accessToken
    /\ proc[p].call.tok.n >= 1
    /\ users[proc[p].user].tokenExpiry = now + TokenLifetime
    /\ users[proc[p].user].refreshToken = Tok(users[proc[p].user].email, 0)

GoneOnList == [api |-> "events.list", err |-> Gone]

\* C17: when a page request of syncCalendarEvents fails with code 410, the user's
\* stored syncToken is set to null and a full sync without syncToken is run; the
\* value returned is exactly the result of that full sync (events collected from
\* pages before the 410 are not part of it) and the stored syncToken afterwards is
\* the nextSyncToken of the full sync.
C17_FullResyncOn410 ==
  [][\A p \in Procs :
       LET r == proc[p]
           q == proc'[p]
       IN
       /\ (r.pc = "sync_list" /\ q.lastFail = GoneOnList /\ r.lastFail # GoneOnList)
            => q.pc = "sync_reset" /\ r.call.syncToken # NoCursor
       /\ (r.pc = "sync_reset" /\ q # r)
            => /\ users'[r.user].syncToken = NoCursor
               /\ q.op = "sync" /\ q.pc = "oa_find"
       /\ (r.op = "sync" /\ r.lastFail = GoneOnList /\ q.pc = "sync_list" /\ q # r)
            => /\ q.call.syncToken = NoCursor
               /\ q.call.pageToken = (IF r.pc = "sync_list" THEN q.page.nextPageToken
                                                            ELSE NoCursor)
       /\ (r.op = "sync" /\ r.lastFail = GoneOnList /\ r.pc = "sync_store" /\ q.pc = "done")
            => LET n == Len(q.served) IN
               /\ q.resp.status = 200
               /\ n >= 1
               /\ \A i \in 1..n : q.sent[i].syncToken = NoCursor
               /\ q.served[n].nextPageToken = NoCursor
               /\ q.resp.events = MapEvents(AllItems(q.served))
               /\ q.resp.hasChanges = (Len(q.resp.events) > 0)
               /\ users'[q.user].syncToken = q.served[n].nextSyncToken]_vars

\* A sync that met a 410 has ended with the two pages of its full sync.
C17_Witness ==
  \E p \in Procs :
    /\ proc[p].op = "sync" /\ proc[p].pc = "done" /\ proc[p].resp.status = 200
    /\ proc[p].lastFail = GoneOnList
    /\ Len(proc[p].served) = 2
    /\ Len(proc[p].resp.events) = 2
    /\ users[proc[p].user].syncToken = proc[p].served[2].nextSyncToken

\* C18: while the tab is hidden polling is paused: from the moment the document
\* becomes hidden until it becomes visible again, the callback given to
\* useSmartPolling is not invoked by any poll timer, after any sequence of mount,
\* visibility changes, user activity and triggerAction calls, including a mount in
\* an already hidden tab.
C18_PausedWhileHidden ==
  [][tab'.polls # tab.polls => ~tab.hidden /\ ~tab'.hidden]_vars

\* The answer the receiver owes to the headers of a notification, given the rows.
Owed(goog, rows) ==
  IF goog.channelId = NoChannel \/ goog.resourceState = "" THEN 400
  ELSE IF \A w \in rows : w.channelId # goog.channelId THEN 404
  ELSE 200

====
